---- MODULE Spec2Model ----
(***************************************************************************)
(* LiveMusicHelper (src/App.tsx, second half): the session controller, the *)
(* playback scheduler and the throttled steering-prompt control of the     *)
(* real-time generative audio pipeline.                                    *)
(*                                                                         *)
(* Time is counted in ticks of 100 ms: bufferTime = 0.5 s is 5 ticks, the  *)
(* throttle interval of 500 ms is 5 ticks.  `currentTime` is the audio     *)
(* hardware clock audioContext.currentTime, which advances only while the  *)
(* context is running; the wall clock is present as the time left on the   *)
(* throttle timer and the time since the latest transmission.              *)
(*                                                                         *)
(* The host (App, first half of src/App.tsx, with useAudioEngine): the     *)
(* game state, the velocity-to-signal mapper handleVelocityChange and the  *)
(* local ambience engine.  Strengths and volumes are kept in units of      *)
(* 1/2000, the coarsest unit in which the per-sample decay 0.1 * 0.015 is  *)
(* a whole number; velocities in thousandths.                              *)
(*                                                                         *)
(* callWithRetry (src/unnamed/part_000), the retry helper of the content   *)
(* service: one call at a time, its delays in milliseconds.                *)
(***************************************************************************)
EXTENDS Integers, Sequences, FiniteSets, Bags, TLC

\* ---------------------------------------------------------------- bounds
MaxTime == 8          \* the audio clock stops advancing here
MaxChunks == 3        \* audio-chunk messages received over one behaviour
MaxSessions == 2      \* ai.live.music.connect calls over one behaviour
Durations == {1, 10}  \* audioBuffer.duration of a decoded chunk: 0.1 s, 1 s
Payloads == {"ok", "bad", "empty"}   \* AudioChunk.data: decodable, malformed, ""
PromptLists == {<<>>, <<1>>, <<2>>}  \* prompt lists handed to setPrompts
Volumes == {0, 10}    \* values handed to setVolume, in tenths
MaxTimers == 1        \* delayed pauses armed at one time
MaxRetries == 3       \* largest `retries` handed to callWithRetry
MaxSignal == 600      \* samples are fed while signalRef is below 0.3
Delays == {1000, 2000}   \* `delayMs` handed to callWithRetry
Statuses == {0, 400, 429, 500}   \* error.status / error.code, 0 = undefined
ErrorTexts == {"none", "other", "429", "RESOURCE_EXHAUSTED"}
                      \* error.message: undefined, or what it contains
Velocities == {10, 20, 100, 200, 250}
                      \* |p.velocity| of a frame, in thousandths: on the low
                      \* edge of the band, rising, peak, falling, on the
                      \* high edge

\* ------------------------------------------------------ program constants
bufferTime == 5       \* private bufferTime = 0.5
throttleDelay == 5    \* throttle(..., 500)
None == 0             \* null session, null sessionPromise
One == 2000           \* strength 1 and volume 1
decay == 30           \* signalRef.current - 0.015

VARIABLES
    session,          \* this.session: 0 (null) or the id of a session
    sessionPromise,   \* this.sessionPromise: 0 (null) or the id it resolves to
    nextStartTime,    \* this.nextStartTime, 0 = unset
    gain,             \* this.outputNode.gain: [value, target] in tenths
    ctxState,         \* this.audioContext.state
    currentTime,      \* this.audioContext.currentTime
    sessions,         \* the sessions opened so far: state ("connecting",
                      \* "open", "failed", "closed"), remote transport state
                      \* ("stopped", "playing", "paused"), and the call
                      \* awaiting the connect promise
    resuming,         \* some play() call is awaiting audioContext.resume()
    decoding,         \* bag of the chunks whose decodeAudioData is awaited
    thrTimer,         \* throttle: ticks left on the armed timer, -1 = none
    thrPending,       \* throttle: arguments of the latest call in the window
    scheduled,        \* the latest two source.start calls, oldest first:
                      \* start time, duration, currentTime of the call
    sent,             \* session.setWeightedPrompts transmissions made for
                      \* the latest throttle window: the list, and the ticks
                      \* since the transmission before (-1: none before)
    events,           \* log of events dispatched on the helper
    hist,             \* observations of the calls made so far (see HistInit)
    gameState,        \* App: gameState
    mystery,          \* App: a mystery is loaded (mystery !== null)
    signalRef,        \* App: signalRef.current
    signalStrength,   \* App: the signalStrength state handed to Interface
    ambience,         \* useAudioEngine: isInitialized and the targets of
                      \* its drone, wind and static nodes
    pauseTimers,      \* App: armed setTimeout(() => lyriaHelper.pause(), 1000)
    thenDue,          \* App: a lyriaHelper.play().then(...) has not run yet
    obs,              \* observations of the host's latest handler (ObsInit)
    call              \* the callWithRetry call in progress (see CallInit)

helperVars == <<session, sessionPromise, nextStartTime, gain, ctxState,
                currentTime, sessions, resuming, decoding,
                thrTimer, thrPending, scheduled, sent, events, hist>>

appVars == <<gameState, mystery, signalRef, signalStrength, ambience,
             pauseTimers, thenDue, obs>>

hostVars == <<gameState, mystery, signalRef, signalStrength, ambience,
              pauseTimers, thenDue, obs, call>>

vars == <<session, sessionPromise, nextStartTime, gain, ctxState,
          currentTime, sessions, resuming, decoding,
          thrTimer, thrPending, scheduled, sent, events, hist,
          gameState, mystery, signalRef, signalStrength, ambience,
          pauseTimers, thenDue, obs, call>>

\* ------------------------------------------------------------ data types
\* An AudioChunk: its payload and the duration it decodes to.
Chunks == [data : Payloads, dur : Durations]

\* A LiveMusicServerMessage: whether serverContent.audioChunks is present,
\* and the list of its audio chunks (possibly empty).
ChunkLists == {<<>>} \cup {<<c>> : c \in Chunks}
                \cup {<<c, d>> : c \in Chunks, d \in {e \in Chunks : e.data = "ok"}}
Messages == {[present |-> FALSE, audioChunks |-> <<>>]}
              \cup {[present |-> TRUE, audioChunks |-> cs] : cs \in ChunkLists}

Sat(n, cap) == IF n < cap THEN n + 1 ELSE cap

\* ----------------------------------------------------------- construction
\* constructor (nextStartTime = 0, gain.value = 0, no session); the browser
\* decides whether a context created without a user gesture starts suspended.
HistInit ==
    [received     |-> 0,      \* chunk messages handed to the decoder so far
     phase        |-> "fresh", \* "fresh": no stop() yet; "stopped": stop()
                              \* was called, no play() since; "replayed":
                              \* play() was called after that stop(), nothing
                              \* scheduled since; "streaming": after that
     stopSinceSched |-> FALSE, \* stop() was called since the latest
                              \* source.start
     lastPhase    |-> "fresh", \* phase in which the latest source.start fell
     lastCont     |-> FALSE,  \* no stop() between the latest two source.start
     drop         |-> "none", \* "pending": a decode has failed since the
                              \* latest source.start; "after": the latest
                              \* source.start came after such a failure
     msgThrew     |-> FALSE,  \* a message handler threw on reading
                              \* audioChunks[0].data of an empty list
     cancelled    |-> {},     \* sessions whose play() was awaiting connect
                              \* when stop() was called, no play() since
     overlap      |-> FALSE,  \* connect()/play() was called while an earlier
                              \* connect was still awaiting its session
     lost         |-> FALSE,  \* a connect was rejected or a transport closed
     connects     |-> 0,      \* connect() invocations so far (0, 1, many)
     reconnects   |-> FALSE,  \* connect() was invoked with a session held
     winCalls     |-> 0,      \* setPrompts calls in the latest throttle
                              \* window (0, 1, 2, many)
     winOK        |-> TRUE,   \* ... all with a non-empty list, and a session
                              \* was connected at each and when the window
                              \* closed
     firstArgs    |-> <<>>,   \* arguments of the first call of that window
     lastArgs     |-> <<>>,   \* arguments of the latest setPrompts call
     lastFire     |-> "none", \* how the throttled function last returned
     sinceSent    |-> -1]     \* ticks since the latest transmission, counted
                              \* up to throttleDelay; -1 before the first

\* useAudioEngine before initAudio(): no context, no nodes.
AmbienceInit ==
    [init |-> FALSE, droneFreq |-> 0, droneGain |-> 0,
     windFreq |-> 0, windGain |-> 0, staticGain |-> 0]

ObsInit ==
    [vel      |-> -1,   \* the velocity handed to the host's latest handler
                        \* if that was handleVelocityChange, else -1
     prev     |-> 0,    \* signalRef.current when that sample came
     strength |-> 0,    \* the instantaneous strength computed for it
     volArg   |-> -1,   \* what the host's latest handler passed to
                        \* lyriaHelper.setVolume, -1 if it made no call
     applied  |-> FALSE] \* that sample's updateAudio got past its guard

\* The errors fn can reject with.
Errors == [status : Statuses, code : Statuses, msg : ErrorTexts]
NoError == [status |-> 0, code |-> 0, msg |-> "none"]

CallInit ==
    [pc       |-> "idle",    \* "idle", "calling" (awaiting fn()), "waiting"
                             \* (awaiting delay), "returned", "threw"
     retries  |-> 0,         \* `retries` of the innermost invocation
     delayMs  |-> 0,         \* `delayMs` of the innermost invocation
     retries0 |-> 0,         \* `retries` the caller passed
     delay0   |-> 0,         \* `delayMs` the caller passed
     attempts |-> 0,         \* invocations of fn so far
     waits    |-> <<>>,      \* the delays waited so far
     err      |-> NoError,   \* the error of the latest failed invocation
     thrown   |-> NoError]   \* the error rethrown to the caller

Init ==
    /\ call = CallInit
    /\ gameState = "INTRO"
    /\ mystery = FALSE
    /\ signalRef = 0
    /\ signalStrength = 0
    /\ ambience = AmbienceInit
    /\ pauseTimers = 0
    /\ thenDue = FALSE
    /\ obs = ObsInit
    /\ session = None
    /\ sessionPromise = None
    /\ nextStartTime = 0
    /\ gain = [value |-> 0, target |-> 0]
    /\ ctxState \in {"suspended", "running"}
    /\ currentTime = 0
    /\ sessions = <<>>
    /\ resuming = FALSE
    /\ decoding = EmptyBag
    /\ thrTimer = -1
    /\ thrPending = <<>>
    /\ scheduled = <<>>
    /\ sent = <<>>
    /\ events = <<>>
    /\ hist = HistInit

\* ------------------------------------------------------ remote session
Connected(k) == k # None /\ sessions[k].state = "open"

\* session?.play() / pause() / stop(): a command to the remote session k;
\* nothing is sent for a null session, and a closed socket discards it.
Command(ss, k, r) ==
    IF k # None /\ ss[k].state = "open" THEN [ss EXCEPT ![k].remote = r] ELSE ss

Connecting == {k \in DOMAIN sessions : sessions[k].state = "connecting"}

\* --------------------------------------------------------------- connect
\* ai.live.music.connect(...): a new session, its promise pending.
OpenSession(who) ==
    /\ Len(sessions) < MaxSessions
    /\ sessions' = Append(sessions,
                     [state |-> "connecting", remote |-> "stopped", waiter |-> who])
    /\ sessionPromise' = Len(sessions) + 1

\* connect() without `if (this.session) return;`.
connect_noGuard ==
    /\ OpenSession("connect")
    /\ hist' = [hist EXCEPT !.overlap = @ \/ Connecting # {},
                            !.connects = Sat(@, 2),
                            !.reconnects = @ \/ session # None]
    /\ UNCHANGED <<session, nextStartTime, gain, ctxState, currentTime,
                   resuming, decoding, thrTimer, thrPending, scheduled, sent,
                   events>>

\* connect() up to its await: `if (this.session) return;` else open.
connect ==
    /\ IF session # None
          THEN UNCHANGED <<sessions, sessionPromise>>
          ELSE OpenSession("connect")
    /\ hist' = [hist EXCEPT !.overlap = @ \/ Connecting # {},
                            !.connects = Sat(@, 2),
                            !.reconnects = @ \/ session # None]
    /\ UNCHANGED <<session, nextStartTime, gain, ctxState, currentTime,
                   resuming, decoding, thrTimer, thrPending, scheduled, sent,
                   events>>

\* play() without the test of audioContext.state and the resume.
PlayTail_noResume(ss, s) ==
    /\ resuming' = resuming
    /\ sessions' = Command(ss, s, "playing")

\* play() after `if (!this.session) await this.connect();`, for a helper
\* whose session is s: resume a suspended context, then session?.play().
PlayTail(ss, s) ==
    IF ctxState = "suspended"
       THEN /\ resuming' = TRUE
            /\ sessions' = ss
       ELSE /\ resuming' = resuming
            /\ sessions' = Command(ss, s, "playing")

\* play() up to its first await.
play ==
    /\ IF session = None
          THEN /\ OpenSession("play")
               /\ UNCHANGED resuming
          ELSE /\ PlayTail(sessions, session)
               /\ UNCHANGED sessionPromise
    /\ hist' = [hist EXCEPT !.overlap = @ \/ (session = None /\ Connecting # {}),
                            !.connects = IF session = None THEN Sat(@, 2) ELSE @,
                            !.phase = IF @ = "stopped" THEN "replayed" ELSE @,
                            !.cancelled = {}]
    /\ UNCHANGED <<session, nextStartTime, gain, ctxState, currentTime,
                   decoding, thrTimer, thrPending, scheduled, sent, events>>

\* The connect promise of session k resolves: `this.session = await
\* this.sessionPromise`, and a play() that was awaiting connect() goes on.
connectResolved(k) ==
    /\ sessions[k].state = "connecting"
    /\ session' = k
    /\ LET ss == [sessions EXCEPT ![k].state = "open", ![k].waiter = "none"]
       IN  IF sessions[k].waiter = "play"
              THEN PlayTail(ss, k)
              ELSE /\ sessions' = ss
                   /\ UNCHANGED resuming
    /\ UNCHANGED <<sessionPromise, nextStartTime, gain, ctxState, currentTime,
                   decoding, thrTimer, thrPending, scheduled, sent,
                   events, hist>>

\* The connect promise rejects: the await throws, connect() and a waiting
\* play() reject, this.session keeps its value.
connectRejected(k) ==
    /\ sessions[k].state = "connecting"
    /\ sessions' = [sessions EXCEPT ![k].state = "failed", ![k].waiter = "none"]
    /\ hist' = [hist EXCEPT !.lost = TRUE]
    /\ UNCHANGED <<session, sessionPromise, nextStartTime, gain, ctxState,
                   currentTime, resuming, decoding, thrTimer, thrPending,
                   scheduled, sent, events>>

\* The context starts running, which settles audioContext.resume() for every
\* waiting play(): each goes on to `await this.session?.play()`.
resumed ==
    /\ resuming
    /\ resuming' = FALSE
    /\ ctxState' = "running"
    /\ sessions' = Command(sessions, session, "playing")
    /\ UNCHANGED <<session, sessionPromise, nextStartTime, gain, currentTime,
                   decoding, thrTimer, thrPending, scheduled, sent,
                   events, hist>>

\* ------------------------------------------------------------ pause, stop
pause ==
    /\ sessions' = Command(sessions, session, "paused")
    /\ UNCHANGED <<session, sessionPromise, nextStartTime, gain, ctxState,
                   currentTime, resuming, decoding, thrTimer, thrPending,
                   scheduled, sent, events, hist>>

\* stop() without `this.nextStartTime = 0`.
stop_keepsClock ==
    /\ sessions' = Command(sessions, session, "stopped")
    /\ hist' = [hist EXCEPT !.phase = "stopped",
                            !.stopSinceSched = TRUE,
                            !.cancelled = {k \in Connecting :
                                             sessions[k].waiter = "play"}]
    /\ UNCHANGED <<session, sessionPromise, nextStartTime, gain, ctxState,
                   currentTime, resuming, decoding, thrTimer, thrPending,
                   scheduled, sent, events>>

\* stop(): session?.stop() and the schedule is reset.
stop ==
    /\ sessions' = Command(sessions, session, "stopped")
    /\ nextStartTime' = 0
    /\ hist' = [hist EXCEPT !.phase = "stopped",
                            !.stopSinceSched = TRUE,
                            !.cancelled = {k \in Connecting :
                                             sessions[k].waiter = "play"}]
    /\ UNCHANGED <<session, sessionPromise, gain, ctxState, currentTime,
                   resuming, decoding, thrTimer, thrPending, scheduled, sent,
                   events>>

\* ------------------------------------------------- transport callbacks
\* onclose / onerror that connects again by itself.
transportLost_reconnects(k, ev) ==
    /\ sessions[k].state = "open"
    /\ Len(sessions) < MaxSessions
    /\ sessions' = Append([sessions EXCEPT ![k].state = "closed"],
                     [state |-> "connecting", remote |-> "stopped",
                      waiter |-> "none"])
    /\ sessionPromise' = Len(sessions) + 1
    /\ events' = Append(events, ev)
    /\ hist' = [hist EXCEPT !.lost = TRUE]
    /\ UNCHANGED <<session, nextStartTime, gain, ctxState,
                   currentTime, resuming, decoding, thrTimer, thrPending,
                   scheduled, sent>>

\* onclose / onerror of session k: an event is dispatched, nothing else.
transportLost(k, ev) ==
    /\ sessions[k].state = "open"
    /\ sessions' = [sessions EXCEPT ![k].state = "closed"]
    /\ events' = Append(events, ev)
    /\ hist' = [hist EXCEPT !.lost = TRUE]
    /\ UNCHANGED <<session, sessionPromise, nextStartTime, gain, ctxState,
                   currentTime, resuming, decoding, thrTimer, thrPending,
                   scheduled, sent>>

\* onmessage of session k up to the await in processAudioChunks: a message
\* without audioChunks is skipped, audioChunks[0].data is read (an empty
\* list makes that read throw, an empty payload returns), and the decode of
\* the first chunk is started.
onmessage(k, m) ==
    /\ sessions[k].state = "open"
    /\ sessions[k].remote = "playing"
    /\ IF ~m.present
          THEN UNCHANGED <<decoding, hist>>
          ELSE IF m.audioChunks = <<>>
          THEN /\ hist' = [hist EXCEPT !.msgThrew = TRUE]
               /\ UNCHANGED decoding
          ELSE IF m.audioChunks[1].data = "empty"
          THEN UNCHANGED <<decoding, hist>>
          ELSE /\ hist.received < MaxChunks
               /\ decoding' = decoding (+) SetToBag({m.audioChunks[1]})
               /\ hist' = [hist EXCEPT !.received = @ + 1]
    /\ UNCHANGED <<session, sessionPromise, nextStartTime, gain, ctxState,
                   currentTime, sessions, resuming, thrTimer, thrPending,
                   scheduled, sent, events>>

\* ------------------------------------------------------------- scheduler
\* The buffering test with `<=` for `<`.
StartTime_le(nst, ct) ==
    IF nst = 0 \/ nst <= ct THEN ct + bufferTime ELSE nst

\* The buffering test without `this.nextStartTime < currentTime`.
StartTime_noStall(nst, ct) ==
    IF nst = 0 THEN ct + bufferTime ELSE nst

\* "Initial buffering logic": the start time given to source.start.
StartTime(nst, ct) ==
    IF nst = 0 \/ nst < ct THEN ct + bufferTime ELSE nst

\* decodeAudioData(decode(rawData), ...) rejects on a malformed payload.
DecodeFails(d) == d.data = "bad"

\* The log keeps the entry before e and e.
Latest(log, e) == IF log = <<>> THEN <<e>> ELSE <<log[Len(log)], e>>

\* processAudioChunks with a failed decode restarting the schedule.
decoded_failResets(d) ==
    /\ BagIn(d, decoding)
    /\ decoding' = decoding (-) SetToBag({d})
    /\ IF DecodeFails(d)
          THEN /\ nextStartTime' = 0
               /\ hist' = [hist EXCEPT !.drop = "pending"]
               /\ UNCHANGED scheduled
          ELSE LET st == StartTime(nextStartTime, currentTime)
               IN  /\ scheduled' = Latest(scheduled,
                         [start |-> st, dur |-> d.dur, at |-> currentTime])
                   /\ nextStartTime' = st + d.dur
                   /\ hist' = [hist EXCEPT
                                 !.phase = IF @ = "replayed" THEN "streaming" ELSE @,
                                 !.stopSinceSched = FALSE,
                                 !.lastPhase = hist.phase,
                                 !.lastCont = ~hist.stopSinceSched,
                                 !.drop = IF @ = "pending" THEN "after" ELSE "none"]
    /\ UNCHANGED <<session, sessionPromise, gain, ctxState, currentTime,
                   sessions, resuming, thrTimer, thrPending, sent, events>>

\* decodeAudioData settles for d and processAudioChunks goes on: a malformed
\* payload makes the await throw; otherwise the buffer is scheduled.
decoded(d) ==
    /\ BagIn(d, decoding)
    /\ decoding' = decoding (-) SetToBag({d})
    /\ IF DecodeFails(d)
          THEN /\ hist' = [hist EXCEPT !.drop = "pending"]
               /\ UNCHANGED <<nextStartTime, scheduled>>
          ELSE LET st == StartTime(nextStartTime, currentTime)
               IN  /\ scheduled' = Latest(scheduled,
                         [start |-> st, dur |-> d.dur, at |-> currentTime])
                   /\ nextStartTime' = st + d.dur
                   /\ hist' = [hist EXCEPT
                                 !.phase = IF @ = "replayed" THEN "streaming" ELSE @,
                                 !.stopSinceSched = FALSE,
                                 !.lastPhase = hist.phase,
                                 !.lastCont = ~hist.stopSinceSched,
                                 !.drop = IF @ = "pending" THEN "after" ELSE "none"]
    /\ UNCHANGED <<session, sessionPromise, gain, ctxState, currentTime,
                   sessions, resuming, thrTimer, thrPending, sent, events>>

\* ---------------------------------------------------------------- volume
\* setVolume that assigns gain.value.
setVolume_step(val) ==
    /\ gain' = [value |-> val, target |-> val]
    /\ UNCHANGED <<session, sessionPromise, nextStartTime, ctxState,
                   currentTime, sessions, resuming, decoding, thrTimer,
                   thrPending, scheduled, sent, events, hist>>

\* setVolume(val): gain.setTargetAtTime(val, currentTime, 0.1) installs the
\* target of the automation; gain.value is not assigned.
setVolume(val) ==
    /\ gain' = [gain EXCEPT !.target = val]
    /\ UNCHANGED <<session, sessionPromise, nextStartTime, ctxState,
                   currentTime, sessions, resuming, decoding, thrTimer,
                   thrPending, scheduled, sent, events, hist>>

\* setTargetAtTime(val, now, 0.1): over one tick of 0.1 s the distance to
\* the target shrinks by exp(-1) = 0.368 (rounded to the nearest tenth).
Approach(g) ==
    [g EXCEPT !.value = g.target + ((g.value - g.target) * 368 + 500) \div 1000]

\* --------------------------------------------------------------- prompts
\* The function handed to throttle: the transmissions it makes for a helper
\* whose session is s, called with prompts.  A null session and an empty
\* list return early; setWeightedPrompts on a closed transport throws, which
\* the catch logs.
SetPromptsBody_inverted(ss, s, prompts) ==
    IF s = None THEN <<>>
    ELSE IF prompts # <<>> THEN <<>>
    ELSE IF ss[s].state = "open" THEN <<prompts>>
    ELSE <<>>

SetPromptsBody_noEmptyCheck(ss, s, prompts) ==
    IF s = None THEN <<>>
    ELSE IF ss[s].state = "open" THEN <<prompts>>
    ELSE <<>>

SetPromptsBody(ss, s, prompts) ==
    IF s = None THEN <<>>
    ELSE IF prompts = <<>> THEN <<>>
    ELSE IF ss[s].state = "open" THEN <<prompts>>
    ELSE <<>>

\* The branch SetPromptsBody takes.
BodyBranch(ss, s, prompts) ==
    IF s = None THEN "nosession"
    ELSE IF prompts = <<>> THEN "empty"
    ELSE IF ss[s].state = "open" THEN "sent"
    ELSE "caught"

\* A throttle that runs the function at once.
ThrottleArm_atOnce(timer) == IF timer = -1 THEN 0 ELSE timer

\* throttle(fn, 500): the timer a call arms when none is armed.
ThrottleArm(timer) == IF timer = -1 THEN throttleDelay ELSE timer

\* throttle(fn, 500): the arguments kept for the end of the window.
ThrottleKeep(pending, timer, args) == args

\* setPrompts(prompts): a call of the throttled function.  The first call of
\* a window arms the timer; every call replaces the kept arguments.
setPrompts(prompts) ==
    /\ thrTimer' = ThrottleArm(thrTimer)
    /\ thrPending' = ThrottleKeep(thrPending, thrTimer, prompts)
    /\ sent' = IF thrTimer = -1 THEN <<>> ELSE sent
    /\ hist' = [hist EXCEPT
                  !.winCalls = IF thrTimer = -1 THEN 1 ELSE Sat(@, 3),
                  !.winOK = (IF thrTimer = -1 THEN TRUE ELSE @)
                              /\ prompts # <<>> /\ Connected(session),
                  !.firstArgs = IF thrTimer = -1 THEN prompts ELSE @,
                  !.lastArgs = prompts]
    /\ UNCHANGED <<session, sessionPromise, nextStartTime, gain, ctxState,
                   currentTime, sessions, resuming, decoding, scheduled,
                   events>>

\* The throttle timer fires: the function runs with the kept arguments.
throttleFire ==
    /\ thrTimer = 0
    /\ thrTimer' = -1
    /\ LET out == SetPromptsBody(sessions, session, thrPending)
       IN  /\ sent' = sent \o [i \in DOMAIN out |->
                                [prompts |-> out[i], gap |-> hist.sinceSent]]
           /\ hist' = [hist EXCEPT
                         !.winOK = @ /\ Connected(session),
                         !.lastFire = BodyBranch(sessions, session, thrPending),
                         !.sinceSent = IF out = <<>> THEN @ ELSE 0]
    /\ UNCHANGED <<session, sessionPromise, nextStartTime, gain, ctxState,
                   currentTime, sessions, resuming, decoding, thrPending,
                   scheduled, events>>

\* ----------------------------------------------------------------- clock
\* 100 ms pass.  The audio clock and the gain automation advance while the
\* context runs; an armed throttle timer counts down.
tick ==
    /\ currentTime < MaxTime
    /\ IF ctxState = "running"
          THEN /\ currentTime' = currentTime + 1
               /\ gain' = Approach(gain)
          ELSE UNCHANGED <<currentTime, gain>>
    /\ thrTimer' = IF thrTimer > 0 THEN thrTimer - 1 ELSE thrTimer
    /\ hist' = [hist EXCEPT
                  !.sinceSent = IF @ = -1 THEN @ ELSE Sat(@, throttleDelay)]
    /\ UNCHANGED <<session, sessionPromise, nextStartTime, ctxState, sessions,
                   resuming, decoding, thrPending, scheduled, sent, events>>

\* ------------------------------------------------------------------ host
Min(a, b) == IF a < b THEN a ELSE b
Max(a, b) == IF a > b THEN a ELSE b

\* The rise without Math.min(1, ...).
Instant_noCap(n, prev) ==
    IF n > 10 /\ n < 250
       THEN IF n > 150 THEN Max(0, One - (n - 150) * 20)
                       ELSE n * 40
       ELSE Max(0, prev - decay)

\* The decay taken from the instantaneous value 0 instead of signalRef.
Instant_snap(n, prev) ==
    IF n > 10 /\ n < 250
       THEN IF n > 150 THEN Max(0, One - (n - 150) * 20)
                       ELSE Min(One, n * 40)
       ELSE 0

\* The fall-off past v = 1.5 without Math.max(0, ...), at twice the slope.
Instant_noFloor(n, prev) ==
    IF n > 10 /\ n < 250
       THEN IF n > 150 THEN One - (n - 150) * 40
                       ELSE Min(One, n * 40)
       ELSE Max(0, prev - decay)

\* The instantaneous strength of handleVelocityChange for |velocity| = n
\* thousandths (v = velocity * 10 = n hundredths), the smoothed strength
\* being prev: inside the band 0.1 < v < 2.5 it is min(1, v / 0.5), replaced
\* by max(0, 1 - (v - 1.5)) when v > 1.5; outside it is max(0, prev - 0.015).
Instant(n, prev) ==
    IF n > 10 /\ n < 250
       THEN IF n > 150 THEN Max(0, One - (n - 150) * 20)
                       ELSE Min(One, n * 40)
       ELSE Max(0, prev - decay)

\* prev + (strength - prev) * 0.1.  The product is rounded away from zero:
\* as in floating point, a difference that is not zero moves the value, and
\* the value never passes the strength it moves to.
Smooth(prev, strength) ==
    LET d == strength - prev
    IN  IF d >= 0 THEN prev + (d + 9) \div 10
                  ELSE prev - ((9 - d) \div 10)

\* The largest r in lo..hi with r * r <= x.
RECURSIVE IsqrtIn(_, _, _)
IsqrtIn(x, lo, hi) ==
    IF lo >= hi THEN lo
    ELSE LET mid == (lo + hi + 1) \div 2
         IN  IF mid * mid <= x THEN IsqrtIn(x, mid, hi)
                               ELSE IsqrtIn(x, lo, mid - 1)

\* A curve with a power below 1: the square root.
Pow15_sqrt(str) == IsqrtIn(str * One, 0, One)

\* Math.pow(newStrength, 1.5) = newStrength * sqrt(newStrength), rounded
\* down to the unit.
Pow15(str) == (str * IsqrtIn(str * One, 0, One)) \div One

\* The gain node is kept in tenths: the target a volume is installed as.
ToGain(vol) == (vol * 10 + One \div 2) \div One

\* initAudio(): creates the nodes once (drone 55 Hz at gain 0.05, wind
\* 200 Hz at gain 0, static at gain 0).
initAudio(a) ==
    IF a.init THEN a
    ELSE [init |-> TRUE, droneFreq |-> 5500, droneGain |-> 5000,
          windFreq |-> 200, windGain |-> 0, staticGain |-> 0]

\* updateAudio skipped while the helper holds a session whose transport
\* has closed.
updateAudio_whileConnected(a, n, str) ==
    IF ~a.init \/ (session # None /\ sessions[session].state = "closed") THEN a
    ELSE [init |-> TRUE,
          droneFreq |-> 5500 + 2 * n,
          droneGain |-> Max(0, 5000 + 5 * n - 2 * str),
          windFreq |-> 200 + 4 * n,
          windGain |-> Min(200 * n, 30000),
          staticGain |-> Max(0, 2 * One - 3 * str) * Min(1000, 5 * n)]

\* updateAudio(velocity, signalStrength): the targets installed on the
\* drone (frequency in 0.01 Hz, gain in 1e-5), the wind (frequency in Hz,
\* gain in 1e-5) and the static (gain in 1/40000000); nothing before
\* initAudio().
updateAudio(a, n, str) ==
    IF ~a.init THEN a
    ELSE [init |-> TRUE,
          droneFreq |-> 5500 + 2 * n,
          droneGain |-> Max(0, 5000 + 5 * n - 2 * str),
          windFreq |-> 200 + 4 * n,
          windGain |-> Min(200 * n, 30000),
          staticGain |-> Max(0, 2 * One - 3 * str) * Min(1000, 5 * n)]

\* handleVelocityChange that restarts the helper's schedule.
handleVelocityChange_resync(n) ==
    LET strength == Instant(n, signalRef)
        newStrength == Smooth(signalRef, strength)
        volume == Pow15(newStrength)
        playing == gameState = "PLAYING"
    IN  /\ signalRef' = newStrength
        /\ signalStrength' = newStrength
        /\ ambience' = updateAudio(ambience, n, newStrength)
        /\ gain' = IF playing THEN [gain EXCEPT !.target = ToGain(volume)]
                              ELSE gain
        /\ nextStartTime' = 0
        /\ UNCHANGED <<session, sessionPromise, ctxState, currentTime,
                       sessions, resuming, decoding, thrTimer, thrPending,
                       scheduled, sent, events, hist>>
        /\ obs' = [vel |-> n, prev |-> signalRef, strength |-> strength,
                   volArg |-> IF playing THEN volume ELSE -1,
                   applied |-> ambience.init]
        /\ UNCHANGED <<gameState, mystery, pauseTimers, thenDue>>
        /\ UNCHANGED call

\* handleVelocityChange(velocity): one frame of PendulumCanvas.
handleVelocityChange(n) ==
    LET strength == Instant(n, signalRef)
        newStrength == Smooth(signalRef, strength)
        volume == Pow15(newStrength)
        playing == gameState = "PLAYING"
    IN  /\ signalRef' = newStrength
        /\ signalStrength' = newStrength
        /\ ambience' = updateAudio(ambience, n, newStrength)
        /\ IF playing THEN setVolume(ToGain(volume))
                      ELSE UNCHANGED helperVars
        /\ obs' = [vel |-> n, prev |-> signalRef, strength |-> strength,
                   volArg |-> IF playing THEN volume ELSE -1,
                   applied |-> ambience.init]
        /\ UNCHANGED <<gameState, mystery, pauseTimers, thenDue>>
        /\ UNCHANGED call

\* startGame() up to its await, from the INTRO screen.
startGame ==
    /\ gameState = "INTRO"
    /\ ambience' = initAudio(ambience)
    /\ gameState' = "LOADING_MYSTERY"
    /\ obs' = ObsInit
    /\ UNCHANGED <<mystery, signalRef, signalStrength, pauseTimers, thenDue>>
    /\ UNCHANGED helperVars
    /\ UNCHANGED call

\* generateMystery() resolves: the round starts, and the effect on
\* [gameState, mystery] calls lyriaHelper.play().then(setPrompts).
mysteryLoaded ==
    /\ gameState = "LOADING_MYSTERY"
    /\ mystery' = TRUE
    /\ gameState' = "PLAYING"
    /\ signalRef' = 0
    /\ signalStrength' = 0
    /\ play
    /\ thenDue' = TRUE
    /\ obs' = ObsInit
    /\ UNCHANGED <<ambience, pauseTimers>>
    /\ UNCHANGED call

\* generateMystery() rejects.
mysteryFailed ==
    /\ gameState = "LOADING_MYSTERY"
    /\ gameState' = "ERROR"
    /\ obs' = ObsInit
    /\ UNCHANGED <<mystery, signalRef, signalStrength, ambience, pauseTimers,
                   thenDue>>
    /\ UNCHANGED helperVars
    /\ UNCHANGED call

\* handleGuess(guess) up to its await.
handleGuess ==
    /\ gameState = "PLAYING" /\ mystery
    /\ gameState' = "VALIDATING"
    /\ obs' = ObsInit
    /\ UNCHANGED <<mystery, signalRef, signalStrength, ambience, pauseTimers,
                   thenDue>>
    /\ UNCHANGED helperVars
    /\ UNCHANGED call

\* validateGuess() resolves: the round ends, and the effect fades the music
\* out and arms the delayed pause.
validated(res) ==
    /\ gameState = "VALIDATING"
    /\ pauseTimers < MaxTimers
    /\ gameState' = res
    /\ setVolume(0)
    /\ pauseTimers' = pauseTimers + 1
    /\ obs' = [ObsInit EXCEPT !.volArg = 0]
    /\ UNCHANGED <<mystery, signalRef, signalStrength, ambience, thenDue>>
    /\ UNCHANGED call

\* validateGuess() rejects.
validateFailed ==
    /\ gameState = "VALIDATING"
    /\ gameState' = "ERROR"
    /\ obs' = ObsInit
    /\ UNCHANGED <<mystery, signalRef, signalStrength, ambience, pauseTimers,
                   thenDue>>
    /\ UNCHANGED helperVars
    /\ UNCHANGED call

\* resetGame(), from the end screen: clears the round and calls startGame().
resetGame ==
    /\ gameState \in {"SUCCESS", "GAME_OVER"}
    /\ mystery' = FALSE
    /\ signalRef' = 0
    /\ signalStrength' = 0
    /\ ambience' = initAudio(ambience)
    /\ gameState' = "LOADING_MYSTERY"
    /\ obs' = ObsInit
    /\ UNCHANGED <<pauseTimers, thenDue>>
    /\ UNCHANGED helperVars
    /\ UNCHANGED call

\* A delayed pause fires, some time after it was armed.
pauseTimerFires ==
    /\ pauseTimers > 0
    /\ pauseTimers' = pauseTimers - 1
    /\ pause
    /\ obs' = ObsInit
    /\ UNCHANGED <<gameState, mystery, signalRef, signalStrength, ambience,
                   thenDue>>
    /\ UNCHANGED call

\* The play() calls of the host have settled, and the then-callbacks of the
\* fulfilled ones run: setPrompts with the two prompts of the round.
playSettled ==
    /\ thenDue
    /\ ~resuming
    /\ \A k \in Connecting : sessions[k].waiter # "play"
    /\ thenDue' = FALSE
    /\ IF session # None THEN setPrompts(<<1, 2>>)
                         ELSE UNCHANGED helperVars
    /\ obs' = ObsInit
    /\ UNCHANGED <<gameState, mystery, signalRef, signalStrength, ambience,
                   pauseTimers>>
    /\ UNCHANGED call

\* --------------------------------------------------------- callWithRetry
\* callWithRetry without the test for 400.
NoRetry_absent(e) == FALSE

\* `error?.status === 400 || error?.code === 400`: not retried.
NoRetry(e) == e.status = 400 \/ e.code = 400

\* callWithRetry that takes every failure for a rate-limit failure.
RateLimited_any(e) == TRUE

\* `error?.status === 429 || error?.code === 429 ||
\*  error?.message?.includes('429') ||
\*  error?.message?.includes('RESOURCE_EXHAUSTED')`.
RateLimited(e) ==
    \/ e.status = 429
    \/ e.code = 429
    \/ e.msg = "429"
    \/ e.msg = "RESOURCE_EXHAUSTED"

\* callWithRetry(fn, retries, delayMs) is called and awaits fn().
callStart(r, d) ==
    /\ call.pc \in {"idle", "returned", "threw"}
    /\ call' = [CallInit EXCEPT !.pc = "calling", !.retries = r, !.delayMs = d,
                                !.retries0 = r, !.delay0 = d]
    /\ UNCHANGED <<helperVars, appVars>>

\* fn() resolves: its value is returned.
fnResolves ==
    /\ call.pc = "calling"
    /\ call' = [call EXCEPT !.pc = "returned", !.attempts = @ + 1]
    /\ UNCHANGED <<helperVars, appVars>>

\* fn() rejects with e: the catch rethrows a bad request, waits before the
\* retry of a rate-limit failure while retries are left, rethrows the rest.
fnRejects(e) ==
    /\ call.pc = "calling"
    /\ call' = IF NoRetry(e)
                  THEN [call EXCEPT !.pc = "threw", !.attempts = @ + 1,
                                    !.err = e, !.thrown = e]
               ELSE IF call.retries > 0 /\ RateLimited(e)
                  THEN [call EXCEPT !.pc = "waiting", !.attempts = @ + 1,
                                    !.err = e]
               ELSE [call EXCEPT !.pc = "threw", !.attempts = @ + 1,
                                 !.err = e, !.thrown = e]
    /\ UNCHANGED <<helperVars, appVars>>

\* delay(delayMs) is over: callWithRetry(fn, retries - 1, delayMs * 2).
delayElapsed ==
    /\ call.pc = "waiting"
    /\ call' = [call EXCEPT !.pc = "calling",
                            !.waits = Append(@, call.delayMs),
                            !.retries = @ - 1,
                            !.delayMs = @ * 2]
    /\ UNCHANGED <<helperVars, appVars>>

Next ==
    \/ connect /\ UNCHANGED hostVars
    \/ play /\ UNCHANGED hostVars
    \/ \E k \in DOMAIN sessions : connectResolved(k) /\ UNCHANGED hostVars
    \/ \E k \in DOMAIN sessions : connectRejected(k) /\ UNCHANGED hostVars
    \/ resumed /\ UNCHANGED hostVars
    \/ pause /\ UNCHANGED hostVars
    \/ stop /\ UNCHANGED hostVars
    \/ \E k \in DOMAIN sessions : \E ev \in {"close", "error"} : transportLost(k, ev) /\ UNCHANGED hostVars
    \/ \E k \in DOMAIN sessions : \E m \in Messages : onmessage(k, m) /\ UNCHANGED hostVars
    \/ \E d \in Chunks : decoded(d) /\ UNCHANGED hostVars
    \/ \E v \in Volumes : setVolume(v) /\ UNCHANGED hostVars
    \/ \E p \in PromptLists : setPrompts(p) /\ UNCHANGED hostVars
    \/ throttleFire /\ UNCHANGED hostVars
    \/ tick /\ UNCHANGED hostVars
    \/ startGame
    \/ mysteryLoaded
    \/ mysteryFailed
    \/ handleGuess
    \/ \E res \in {"SUCCESS", "GAME_OVER"} : validated(res)
    \/ validateFailed
    \/ resetGame
    \/ pauseTimerFires
    \/ playSettled
    \/ \E n \in Velocities : handleVelocityChange(n)
    \/ \E r \in 0..MaxRetries : \E d \in Delays : callStart(r, d)
    \/ fnResolves
    \/ \E e \in Errors : fnRejects(e)
    \/ delayElapsed

\* The whole program: the helper under every caller, and the host.
Spec == Init /\ [][Next]_vars

\* The scheduler under a caller that plays and stops, and awaits connect
\* before it calls play() again, fed with messages that carry audio chunks.
NextSched ==
    \/ Connecting = {} /\ play /\ UNCHANGED hostVars
    \/ \E k \in DOMAIN sessions : connectResolved(k) /\ UNCHANGED hostVars
    \/ resumed /\ UNCHANGED hostVars
    \/ stop /\ UNCHANGED hostVars
    \/ \E k \in DOMAIN sessions : \E m \in Messages :
          m.audioChunks # <<>> /\ onmessage(k, m) /\ UNCHANGED hostVars
    \/ \E d \in Chunks : decoded(d) /\ UNCHANGED hostVars
    \/ tick /\ UNCHANGED hostVars

SpecSched == Init /\ [][NextSched]_vars

\* The session lifecycle under every interleaving of the lifecycle calls
\* and the transport's callbacks.
NextLife ==
    \/ connect /\ UNCHANGED hostVars
    \/ play /\ UNCHANGED hostVars
    \/ \E k \in DOMAIN sessions : connectResolved(k) /\ UNCHANGED hostVars
    \/ \E k \in DOMAIN sessions : connectRejected(k) /\ UNCHANGED hostVars
    \/ resumed /\ UNCHANGED hostVars
    \/ pause /\ UNCHANGED hostVars
    \/ stop /\ UNCHANGED hostVars
    \/ \E k \in DOMAIN sessions : \E ev \in {"close", "error"} : transportLost(k, ev) /\ UNCHANGED hostVars

SpecLife == Init /\ [][NextLife]_vars

\* The control plane: steering prompts and volume against a connection
\* made by a caller that awaits connect().
NextControl ==
    \/ Connecting = {} /\ connect /\ UNCHANGED hostVars
    \/ \E k \in DOMAIN sessions : connectResolved(k) /\ UNCHANGED hostVars
    \/ \E k \in DOMAIN sessions : \E ev \in {"close", "error"} : transportLost(k, ev) /\ UNCHANGED hostVars
    \/ \E v \in Volumes : setVolume(v) /\ UNCHANGED hostVars
    \/ \E p \in PromptLists : setPrompts(p) /\ UNCHANGED hostVars
    \/ throttleFire /\ UNCHANGED hostVars
    \/ tick /\ UNCHANGED hostVars

SpecControl == Init /\ [][NextControl]_vars

\* The inbound path under every message the session can deliver, for a
\* caller that plays once connected.
NextInbound ==
    \/ Connecting = {} /\ play /\ UNCHANGED hostVars
    \/ \E k \in DOMAIN sessions : connectResolved(k) /\ UNCHANGED hostVars
    \/ resumed /\ UNCHANGED hostVars
    \/ \E k \in DOMAIN sessions : \E m \in Messages : onmessage(k, m) /\ UNCHANGED hostVars
    \/ \E d \in Chunks : decoded(d) /\ UNCHANGED hostVars
    \/ tick /\ UNCHANGED hostVars

SpecInbound == Init /\ [][NextInbound]_vars



\* The mapper over the rounds of the game, the helper left to itself on a
\* page whose audio context starts suspended.
NextMapper ==
    \/ startGame
    \/ mysteryLoaded
    \/ handleGuess
    \/ \E res \in {"SUCCESS", "GAME_OVER"} : validated(res)
    \/ resetGame
    \/ \E n \in Velocities : handleVelocityChange(n)

InitMapper == Init /\ ctxState = "suspended"

\* The ambience engine beside a helper whose transport fails and whose
\* chunks fail to decode, during the first round, the pendulum swinging at
\* one of two speeds of the sweet spot.
NextAmbience ==
    \/ startGame
    \/ mysteryLoaded
    \/ \E k \in DOMAIN sessions : connectResolved(k) /\ UNCHANGED hostVars
    \/ resumed /\ UNCHANGED hostVars
    \/ \E k \in DOMAIN sessions : \E ev \in {"close", "error"} :
          transportLost(k, ev) /\ UNCHANGED hostVars
    \/ \E k \in DOMAIN sessions : \E m \in Messages :
          (Len(m.audioChunks) = 1 /\ m.audioChunks[1].data = "bad")
             /\ onmessage(k, m) /\ UNCHANGED hostVars
    \/ \E d \in Chunks : decoded(d) /\ UNCHANGED hostVars
    \/ \E n \in {100, 150} : handleVelocityChange(n)

SpecAmbience == InitMapper /\ [][NextAmbience]_vars

SpecMapper == InitMapper /\ [][NextMapper]_vars

\* The two event sources of the first round side by side: chunk messages
\* and their decodes against velocity samples of the sweet spot.
NextInterleave ==
    \/ startGame
    \/ mysteryLoaded
    \/ \E k \in DOMAIN sessions : connectResolved(k) /\ UNCHANGED hostVars
    \/ resumed /\ UNCHANGED hostVars
    \/ \E k \in DOMAIN sessions : \E m \in Messages :
          (Len(m.audioChunks) = 1 /\ m.audioChunks[1].data = "ok")
             /\ onmessage(k, m) /\ UNCHANGED hostVars
    \/ \E d \in Chunks : decoded(d) /\ UNCHANGED hostVars
    \/ tick /\ UNCHANGED hostVars
    \/ \E n \in {100, 150} : signalRef < MaxSignal /\ handleVelocityChange(n)

SpecInterleave == InitMapper /\ [][NextInterleave]_vars

\* The inbound path fed with two messages, the first carrying a chunk of
\* 0.1 s and the second a chunk of 1 s, so that a scheduled buffer's
\* duration tells which message it came from.
NextOrder ==
    \/ Connecting = {} /\ play /\ UNCHANGED hostVars
    \/ \E k \in DOMAIN sessions : connectResolved(k) /\ UNCHANGED hostVars
    \/ resumed /\ UNCHANGED hostVars
    \/ \E k \in DOMAIN sessions : \E m \in Messages :
          /\ Len(m.audioChunks) = 1 /\ m.audioChunks[1].data = "ok"
          /\ hist.received < 2
          /\ m.audioChunks[1].dur = (IF hist.received = 0 THEN 1 ELSE 10)
          /\ onmessage(k, m) /\ UNCHANGED hostVars
    \/ \E d \in Chunks : decoded(d) /\ UNCHANGED hostVars
    \/ tick /\ UNCHANGED hostVars

SpecOrder == Init /\ [][NextOrder]_vars

\* The rounds of the game on a healthy transport: the music effect's
\* play().then(setPrompts) of each round against the delayed pause armed
\* at the end of the round before.
NextRounds ==
    \/ startGame
    \/ mysteryLoaded
    \/ handleGuess
    \/ \E res \in {"SUCCESS", "GAME_OVER"} : validated(res)
    \/ resetGame
    \/ pauseTimerFires
    \/ playSettled
    \/ \E k \in DOMAIN sessions : connectResolved(k) /\ UNCHANGED hostVars
    \/ resumed /\ UNCHANGED hostVars
    \/ throttleFire /\ UNCHANGED hostVars
    \/ tick /\ UNCHANGED hostVars

SpecRounds == Init /\ [][NextRounds]_vars

\* The inbound path fed with messages of two well-formed payloads each,
\* the first of 0.1 s and the second of 1 s.
NextBatch ==
    \/ Connecting = {} /\ play /\ UNCHANGED hostVars
    \/ \E k \in DOMAIN sessions : connectResolved(k) /\ UNCHANGED hostVars
    \/ resumed /\ UNCHANGED hostVars
    \/ \E k \in DOMAIN sessions : \E m \in Messages :
          /\ Len(m.audioChunks) = 2
          /\ m.audioChunks[1] = [data |-> "ok", dur |-> 1]
          /\ m.audioChunks[2] = [data |-> "ok", dur |-> 10]
          /\ onmessage(k, m) /\ UNCHANGED hostVars
    \/ \E d \in Chunks : decoded(d) /\ UNCHANGED hostVars
    \/ tick /\ UNCHANGED hostVars

SpecBatch == Init /\ [][NextBatch]_vars

\* callWithRetry under every outcome of fn.
NextRetry ==
    \/ \E r \in 0..MaxRetries : \E d \in Delays : callStart(r, d)
    \/ fnResolves
    \/ \E e \in Errors : fnRejects(e)
    \/ delayElapsed

SpecRetry == Init /\ [][NextRetry]_vars

\* ================================================================ claims
Last == scheduled[Len(scheduled)]
Prev == scheduled[1]
PrevEnd == Prev.start + Prev.dur

\* ---------------------------------------------------------------- C1
\* C1 as stated: two chunks scheduled less than bufferTime apart, with no
\* stop() between them, are contiguous, and the first chunk of a fresh
\* helper starts bufferTime after the hardware time of its scheduling.
C1_ContiguousWhenGapsShort ==
    /\ (Len(scheduled) = 1 /\ hist.lastPhase = "fresh")
          => Last.start = Last.at + bufferTime
    /\ (Len(scheduled) = 2 /\ hist.lastCont /\ Last.at - Prev.at < bufferTime)
          => Last.start = Prev.start + Prev.dur

\* C1 amended: two chunks scheduled less than bufferTime apart, with no
\* stop() between them, are contiguous and strictly increasing provided the
\* schedule has not run dry (the earlier chunk's end is not before the
\* hardware time at which the later one is scheduled); the first chunk of a
\* fresh helper starts bufferTime after the hardware time of its scheduling.
C1_ContiguousWhileBuffered ==
    /\ (Len(scheduled) = 1 /\ hist.lastPhase = "fresh")
          => Last.start = Last.at + bufferTime
    /\ (Len(scheduled) = 2 /\ hist.lastCont /\ Last.at - Prev.at < bufferTime
          /\ PrevEnd >= Last.at)
          => /\ Last.start = Prev.start + Prev.dur
             /\ Last.start > Prev.start

\* The third of three 1 s chunks scheduled 200 ms apart from t0 = 0 starts
\* at 2.5 s, right after the second, which started at 1.5 s.
C1_Witness ==
    /\ Len(scheduled) = 2 /\ hist.lastCont /\ hist.received = 3
    /\ Prev.at = 2 /\ Prev.dur = 10 /\ Prev.start = 15
    /\ Last.at = 4 /\ Last.dur = 10 /\ Last.start = 25

\* ---------------------------------------------------------------- C2
\* C2 as stated: a chunk scheduled more than bufferTime after the previous
\* one (no stop() between them) starts at the hardware time + bufferTime.
C2_RebufferWhenGapLong ==
    (Len(scheduled) = 2 /\ hist.lastCont /\ Last.at - Prev.at > bufferTime)
       => Last.start = Last.at + bufferTime

\* C2 amended: a chunk scheduled when the accumulated nextStartTime already
\* lies before the hardware time (the buffered audio ran out) starts at the
\* hardware time + bufferTime and not at the accumulated nextStartTime.
C2_RebufferWhenStale ==
    (Len(scheduled) = 2 /\ hist.lastCont /\ PrevEnd < Last.at)
       => /\ Last.start = Last.at + bufferTime
          /\ Last.start # PrevEnd

\* A 0.1 s chunk scheduled at 0 ends at 0.6 s; the next one, scheduled at
\* 0.7 s, starts at 1.2 s.
C2_Witness ==
    /\ Len(scheduled) = 2 /\ hist.lastCont
    /\ Prev.at = 0 /\ Prev.dur = 1 /\ Last.at = 7 /\ Last.start = 12

\* ---------------------------------------------------------------- C3
\* C3: when a throttle window in which setPrompts was called N >= 1 times,
\* each time with a non-empty list and a connected session, has closed,
\* exactly one transmission was made for it, carrying the latest list.
C3_OneTransmissionPerWindow ==
    (thrTimer = -1 /\ hist.winCalls >= 1 /\ hist.winOK)
       => /\ Len(sent) = 1
          /\ sent[1].prompts = hist.lastArgs

\* Three or more calls in one window, the first and the last with different
\* lists, and the one transmission carries the last.
C3_Witness ==
    /\ thrTimer = -1 /\ hist.winCalls = 3 /\ hist.winOK
    /\ hist.firstArgs # hist.lastArgs
    /\ Len(sent) = 1 /\ sent[1].prompts = hist.lastArgs

\* ---------------------------------------------------------------- C4
\* C4: every transmission comes at least the throttle interval after the
\* transmission before it.
C4_TransmissionsApart ==
    \A i \in DOMAIN sent : sent[i].gap = -1 \/ sent[i].gap >= throttleDelay

\* A second transmission, made after calls in two windows.
C4_Witness ==
    /\ Len(sent) = 1 /\ sent[1].gap >= throttleDelay
    /\ hist.winCalls >= 2

C6_FreshPrerollAfterStopPlay ==
    (scheduled # <<>> /\ hist.lastPhase = "replayed")
       => Last.start = Last.at + bufferTime

\* ---------------------------------------------------------------- C7
\* C7: once a play() that stop() overtook while it awaited connect() has
\* settled, and play() has not been called again, the remote session is not
\* playing and nextStartTime is unset.
C7_StopCancelsPendingPlay ==
    \A k \in hist.cancelled :
        sessions[k].state # "connecting"
           => sessions[k].remote # "playing" /\ nextStartTime = 0

\* ---------------------------------------------------------------- C8
\* C8: nothing is scheduled between a stop() and the next play().
C8_NothingScheduledWhileStopped ==
    hist.lastPhase # "stopped"

\* ---------------------------------------------------------------- C9
\* C9: after the transport of the held session has reported close or
\* error, the helper holds no session.
C9_TransportLossDisconnects ==
    session # None => sessions[session].state # "closed"

\* ---------------------------------------------------------------- C10
\* C10: as long as every connect() was called after the one before it had
\* settled and the transport is healthy, one session has been opened, and
\* it is the one the helper holds and the one sessionPromise resolves to.
C10_SequentialConnectOpensOnce ==
    (hist.connects >= 1 /\ ~hist.overlap /\ ~hist.lost)
       => /\ Len(sessions) = 1
          /\ sessionPromise = 1
          /\ session \in {None, 1}

\* connect() has been called again with the session established.
C10_Witness ==
    /\ hist.connects = 2 /\ hist.reconnects /\ ~hist.overlap /\ ~hist.lost
    /\ session = 1 /\ Len(sessions) = 1 /\ sessions[1].state = "open"

\* ---------------------------------------------------------------- C11
\* C11: when the decode of a malformed chunk fails, the step leaves
\* nextStartTime, the session, the output gain and the schedule as they
\* were; and a well-formed chunk scheduled after such a failure (no stop()
\* since the chunk scheduled before it) starts where it would have started
\* without the failure: right after the chunk before it, or, if that one
\* has already ended, bufferTime after the hardware time.
C11_DecodeFailureDropsChunk ==
    /\ [][ \A d \in Chunks :
             (d.data = "bad" /\ BagIn(d, decoding)
                /\ decoding' = decoding (-) SetToBag({d}))
             => UNCHANGED <<nextStartTime, session, sessionPromise, sessions,
                            gain, scheduled, events>>
         ]_vars
    /\ [] ((Len(scheduled) = 2 /\ hist.lastCont /\ hist.drop = "after")
             => Last.start = IF PrevEnd < Last.at THEN Last.at + bufferTime
                                                  ELSE PrevEnd)

\* A chunk scheduled at 0.2 s, after a decode failed, directly follows the
\* 1 s chunk scheduled at 0 s.
C11_Witness ==
    /\ Len(scheduled) = 2 /\ hist.lastCont /\ hist.drop = "after"
    /\ Prev.at = 0 /\ Prev.dur = 10 /\ Last.at = 2 /\ Last.start = 15
    /\ nextStartTime = Last.start + Last.dur

\* ---------------------------------------------------------------- C12
\* C12: a message that carries no audio chunks (audioChunks absent or an
\* empty list) starts no decode, schedules nothing, leaves nextStartTime as
\* it was, and its handler raises no error.
C12_NoChunkMessageIgnored ==
    /\ [][ hist'.msgThrew # hist.msgThrew
             => UNCHANGED <<nextStartTime, scheduled, decoding>> ]_vars
    /\ [] ~hist.msgThrew

\* ---------------------------------------------------------------- C17
\* C17: play() requests playback last.  Whenever a session is set playing,
\* it is the session the helper holds, its connect has resolved, and the
\* audio context is running; a resume is awaited only by a play() that
\* holds a session and found the context suspended, so no play() on a
\* running context resumes.
C17_PlayStepsInOrder ==
    [][ /\ \A k \in DOMAIN sessions :
              (sessions'[k].remote = "playing" /\ sessions[k].remote # "playing")
                 => /\ session' = k
                    /\ sessions'[k].state = "open"
                    /\ ctxState' = "running"
        /\ (resuming' /\ ~resuming)
              => /\ ctxState = "suspended" /\ ctxState' = "suspended"
                 /\ session' # None
        /\ ctxState = "running" => ~resuming'
      ]_vars

\* A play() on a suspended context has connected and awaits the resume;
\* playback has not been requested yet.
C17_Witness ==
    /\ resuming /\ ctxState = "suspended"
    /\ session = 1 /\ sessions[1].state = "open"
    /\ sessions[1].remote = "stopped" /\ sessions[1].waiter = "none"

\* ---------------------------------------------------------------- C19
\* C19: sessions are opened by the caller's connect() and play() calls
\* only.  No session exists before the first such call and at most one
\* after exactly one; every session is opened with a connect() or play()
\* call awaiting it; and a step in which a transport closes or fails, or a
\* connect is rejected, opens nothing and leaves the helper's session and
\* sessionPromise as they were.
C19_NoAutomaticReconnect ==
    /\ [] (hist.connects = 0 => sessions = <<>> /\ sessionPromise = None)
    /\ [] (hist.connects = 1 => Len(sessions) <= 1)
    /\ [][ Len(sessions') > Len(sessions)
             => /\ Len(sessions') = Len(sessions) + 1
                /\ sessions'[Len(sessions')].waiter \in {"connect", "play"}
                /\ events' = events /\ hist'.lost = hist.lost ]_vars
    /\ [][ (events' # events \/ (hist'.lost /\ ~hist.lost))
             => /\ Len(sessions') = Len(sessions)
                /\ UNCHANGED <<session, sessionPromise>> ]_vars

\* After one connect() the transport of the held session has closed, and
\* there is still that one session only.
C19_Witness ==
    /\ hist.connects = 1 /\ hist.lost /\ events # <<>>
    /\ session = 1 /\ Len(sessions) = 1 /\ sessions[1].state = "closed"
    /\ sessionPromise = 1

\* ================================================= claims about the mapper
InBand(n) == n > 10 /\ n < 250            \* 0.1 < velocity * 10 < 2.5
Sampled == obs.vel # -1                  \* the latest handler was a sample

\* ---------------------------------------------------------------- C13
\* C13: the smoothed signal strength (and the copy of it handed to the
\* interface) lies in [0,1] after every velocity sample and every reset.
C13_SignalWithinUnitInterval ==
    /\ signalRef >= 0 /\ signalRef <= One
    /\ signalStrength >= 0 /\ signalStrength <= One
    /\ Sampled => obs.strength >= 0 /\ obs.strength <= One

\* In a second round, after the resets of resetGame and startGame, a sample
\* at the peak has brought the strength from just below 1 to 1.
C13_Witness ==
    /\ Len(sessions) = 2 /\ gameState = "PLAYING"
    /\ obs.vel = 100 /\ obs.prev = One - 1 /\ signalRef = One

\* ---------------------------------------------------------------- C14
\* C14: a sample outside the band decays towards the previous smoothed
\* value less 0.015: the smoothed strength does not increase, is never
\* negative, strictly decreases while it is positive (so it tends to 0),
\* falls by the fixed 0.0015 per sample while it is at least 0.015, and is
\* not brought to 0 from a value above the unit.
C14_DecaysOutsideBand ==
    (Sampled /\ ~InBand(obs.vel))
       => /\ obs.strength = (IF obs.prev > decay THEN obs.prev - decay ELSE 0)
          /\ signalRef <= obs.prev
          /\ signalRef >= 0
          /\ obs.prev > 0 => signalRef < obs.prev
          /\ obs.prev >= decay => signalRef = obs.prev - 3
          /\ obs.prev > 1 => signalRef > 0

\* The first sample on the high edge of the band after the strength has
\* reached 1 takes it to 1 - 0.0015.
C14_Witness ==
    /\ obs.vel = 250 /\ obs.prev = One /\ signalRef = One - 3

\* ---------------------------------------------------------------- C15
\* C15 as stated: a sample inside the band does not decrease the smoothed
\* strength, whatever value in [0,1] it had.
C15_RisesInsideBand ==
    (Sampled /\ InBand(obs.vel)) => signalRef >= obs.prev

\* C15 amended: a sample inside the band moves the smoothed strength
\* towards the instantaneous strength, never past it, and does move it when
\* the two differ; the instantaneous strength is v / 0.5 below v = 0.5, 1
\* from there to v = 1.5, and 2.5 - v above; so the smoothed strength does
\* not decrease when the instantaneous one is not below it, which is so
\* for every sample with 0.5 <= v <= 1.5.
C15_MovesTowardInstant ==
    (Sampled /\ InBand(obs.vel))
       => /\ obs.strength = (IF obs.vel < 50 THEN obs.vel * 40
                             ELSE IF obs.vel <= 150 THEN One
                             ELSE One - (obs.vel - 150) * 20)
          /\ obs.strength >= obs.prev
                => signalRef >= obs.prev /\ signalRef <= obs.strength
          /\ obs.strength <= obs.prev
                => signalRef <= obs.prev /\ signalRef >= obs.strength
          /\ obs.strength # obs.prev => signalRef # obs.prev
          /\ (obs.vel >= 50 /\ obs.vel <= 150) => signalRef >= obs.prev

\* A sample at the peak takes the strength from 0.5 to 0.55.
C15_Witness ==
    /\ obs.vel = 100 /\ obs.prev = One \div 2
    /\ signalRef = One \div 2 + One \div 20

\* ---------------------------------------------------------------- C16
\* C16: what the host passes to LiveMusicHelper.setVolume lies in [0,1]: 0
\* when the round ends, and in a sample a value that is not above the
\* smoothed strength; setVolume installs it as the target as it is.
C16_VolumeWithinUnitInterval ==
    obs.volArg # -1
       => /\ obs.volArg >= 0 /\ obs.volArg <= One
          /\ Sampled => obs.volArg <= signalRef
          /\ ~Sampled => obs.volArg = 0
          /\ gain.target = (obs.volArg * 10 + One \div 2) \div One

\* A sample of a round has passed 0.125 for the strength 0.25.
C16_Witness ==
    /\ gameState = "PLAYING" /\ Sampled
    /\ signalRef = One \div 4 /\ obs.volArg = One \div 8
    /\ gain.target = 1

\* ---------------------------------------------------------------- C18
\* C18: a transport close or error and a decode failure leave the ambience
\* engine, the smoothed strength and the game as they were; a velocity
\* sample on an initialised engine installs the drone, wind and static
\* targets of that sample whatever the state of the helper's session; and
\* a step that changes the ambience targets changes nothing of the helper
\* but the target of its own output gain.
C18_AmbienceIndependent ==
    /\ [][ (events' # events \/ decoding' # decoding \/ sessions' # sessions)
             /\ gameState' = gameState
             => UNCHANGED <<ambience, signalRef, signalStrength, obs>> ]_vars
    /\ [][ ambience' # ambience
             => /\ UNCHANGED <<session, sessionPromise, sessions, nextStartTime,
                               ctxState, decoding, scheduled, events>>
                /\ gain'.value = gain.value ]_vars
    /\ [] ((Sampled /\ ambience.init)
             => /\ obs.applied
                /\ ambience.droneFreq = 5500 + 2 * obs.vel
                /\ ambience.droneGain = 5000 + 5 * obs.vel - 2 * signalRef
                /\ ambience.windFreq = 200 + 4 * obs.vel
                /\ ambience.windGain
                     = (IF obs.vel < 150 THEN 200 * obs.vel ELSE 30000)
                /\ ambience.staticGain
                     = (IF 3 * signalRef < 2 * One THEN 2 * One - 3 * signalRef
                                                  ELSE 0) * 5 * obs.vel)

\* The latest handler was a sample at the peak, applied to the ambience
\* engine while the helper holds a session whose transport has closed and a
\* chunk has failed to decode.
C18_Witness ==
    /\ Sampled /\ obs.vel = 100 /\ obs.applied
    /\ session = 1 /\ sessions[1].state = "closed" /\ events # <<>>
    /\ hist.drop = "pending" /\ decoding = EmptyBag
    /\ ambience.windGain = 20000 /\ signalRef = One

\* ---------------------------------------------------------------- C20
\* C20: a failure of fn with status or code 400 is never retried: the call
\* has thrown that very error, no delay follows the failure, and when it
\* is the failure of the first invocation fn was invoked once and nothing
\* was waited, whatever retries are left and whatever the message holds.
C20_BadRequestNotRetried ==
    (call.err.status = 400 \/ call.err.code = 400)
       => /\ call.pc = "threw"
          /\ call.thrown = call.err
          /\ Len(call.waits) = call.attempts - 1
          /\ call.retries = call.retries0 - Len(call.waits)
          /\ call.retries = call.retries0
                => call.attempts = 1 /\ call.waits = <<>>

\* fn failed with status 400 and a message that names RESOURCE_EXHAUSTED,
\* all three retries left: one invocation, no wait, the error rethrown.
C20_Witness ==
    /\ call.pc = "threw" /\ call.retries0 = 3 /\ call.retries = 3
    /\ call.err.status = 400 /\ call.err.msg = "RESOURCE_EXHAUSTED"
    /\ call.thrown = call.err /\ call.attempts = 1 /\ call.waits = <<>>

\* ---------------------------------------------------------------- C21
\* C21: callWithRetry retries rate-limit failures only and terminates: fn
\* is invoked at most retries + 1 times, a delay is awaited only after a
\* rate-limit failure with retries left, the k-th delay is delayMs *
\* 2^(k-1), fn is not invoked again after it resolved or after a failure
\* that is no rate-limit failure, and the error thrown is the latest one,
\* thrown after retries + 1 invocations when it is a rate-limit failure
\* that is no bad request.
C21_RetriesOnlyRateLimits ==
    LET rateLimit(e) == \/ e.status = 429 \/ e.code = 429
                        \/ e.msg \in {"429", "RESOURCE_EXHAUSTED"}
        badRequest(e) == e.status = 400 \/ e.code = 400
    IN
    /\ call.attempts <= call.retries0 + 1
    /\ Len(call.waits) <= call.retries0
    /\ call.pc = "waiting" => rateLimit(call.err) /\ call.retries > 0
    /\ (call.pc = "calling" /\ call.attempts > 0) => rateLimit(call.err)
    /\ \A k \in 1..Len(call.waits) :
          call.waits[k] = IF k = 1 THEN call.delay0 ELSE 2 * call.waits[k - 1]
    /\ call.pc = "calling" => call.attempts = Len(call.waits)
    /\ call.pc \in {"waiting", "returned", "threw"}
          => call.attempts = Len(call.waits) + 1
    /\ call.pc = "threw"
          => /\ call.thrown = call.err
             /\ ~rateLimit(call.err) => call.attempts = Len(call.waits) + 1
             /\ (rateLimit(call.err) /\ ~badRequest(call.err))
                   => call.attempts = call.retries0 + 1

\* Three retries at 1000 ms were used up on rate-limit failures: four
\* invocations, waits of 1000, 2000 and 4000 ms, the last error rethrown.
C21_Witness ==
    /\ call.pc = "threw" /\ call.retries0 = 3 /\ call.delay0 = 1000
    /\ call.attempts = 4 /\ call.waits = <<1000, 2000, 4000>>
    /\ call.err.msg = "RESOURCE_EXHAUSTED" /\ call.thrown = call.err

\* ---------------------------------------------------------------- C22
\* C22 as stated: from the first source.start until stop(), nextStartTime
\* is at least the hardware time minus the duration of the buffer scheduled
\* last; once stop() was called, and nothing scheduled since, it is 0.
C22_ClockNeverLags ==
    /\ (scheduled # <<>> /\ ~hist.stopSinceSched)
          => nextStartTime >= currentTime - Last.dur
    /\ hist.stopSinceSched => nextStartTime = 0

\* C22 amended: from a source.start until stop(), nextStartTime is the end
\* of the buffer scheduled last, which is at least the hardware time of
\* that scheduling plus the buffer's duration; from stop() until the next
\* source.start, nextStartTime is 0.
C22_ClockAheadWhenScheduled ==
    /\ (scheduled # <<>> /\ ~hist.stopSinceSched)
          => /\ nextStartTime = Last.start + Last.dur
             /\ nextStartTime >= Last.at + Last.dur
    /\ hist.stopSinceSched => nextStartTime = 0

\* A 0.1 s chunk was scheduled at 0 (nextStartTime 0.6 s) and nothing has
\* arrived since: at 0.8 s the clock is more than one buffer past it.
C22_Witness ==
    /\ Len(scheduled) = 1 /\ ~hist.stopSinceSched /\ hist.phase = "fresh"
    /\ Last.at = 0 /\ Last.dur = 1 /\ nextStartTime = 6
    /\ currentTime = 8 /\ nextStartTime < currentTime - Last.dur

\* ---------------------------------------------------------------- C23
\* C23: setVolume never moves the realised gain by a step: a step that
\* installs a new target leaves gain.value as it was, gain.value changes
\* only as the audio clock advances, and then it moves toward the target
\* without passing it.
C23_NoGainStep ==
    [][/\ gain'.target # gain.target
             => gain'.value = gain.value /\ currentTime' = currentTime
       /\ gain'.value # gain.value
             => /\ currentTime' = currentTime + 1
                /\ gain'.target = gain.target
                /\ \/ gain.value < gain'.value /\ gain'.value <= gain.target
                   \/ gain.value > gain'.value /\ gain'.value >= gain.target]_vars

\* setVolume(1) at 0 and setVolume(0) at 0.1 s, the gain on its way up:
\* the value 0.6 reached after one time constant is still there.
C23_Witness ==
    /\ currentTime = 1 /\ gain.value = 6 /\ gain.target = 0

\* ---------------------------------------------------------------- C24
\* C24: the two event sources are independent.  A velocity sample leaves
\* nextStartTime, the session, the pending decodes and the schedule as they
\* were, and a scheduling leaves the signal strength and the gain as they
\* were; so under every interleaving the signal strength is the smoothing
\* of the value before the latest sample toward that sample's strength, and
\* a chunk scheduled after another starts at the other's end, or bufferTime
\* after the clock where that end is past.
C24_SourcesIndependent ==
    /\ [](Sampled => signalRef = Smooth(obs.prev, Instant(obs.vel, obs.prev)))
    /\ []((Len(scheduled) = 2 /\ hist.lastCont)
             => Last.start = IF PrevEnd < Last.at THEN Last.at + bufferTime
                                                  ELSE PrevEnd)
    /\ [][/\ (\E n \in Velocities : handleVelocityChange(n))
                => UNCHANGED <<nextStartTime, session, sessionPromise,
                               sessions, decoding, scheduled, currentTime>>
          /\ (\E d \in Chunks : decoded(d))
                => UNCHANGED <<signalRef, signalStrength, gain, ambience,
                               gameState>>]_vars

\* Two chunks were scheduled back to back and a third is being decoded,
\* while three velocity samples were taken: strength 0.271, target gain 0.1.
C24_Witness ==
    /\ Len(scheduled) = 2 /\ hist.lastCont /\ Last.start = PrevEnd
    /\ Sampled /\ obs.prev = 380 /\ signalRef = 542 /\ gain.target = 1
    /\ decoding # EmptyBag

\* ---------------------------------------------------------------- C25
\* C25: the playback intervals [start, start + duration) of the latest two
\* scheduled buffers do not overlap, whether or not stop() was called
\* between their schedulings.
C25_NoOverlap ==
    Len(scheduled) = 2
       => \/ PrevEnd <= Last.start
          \/ Last.start + Last.dur <= Prev.start

\* ---------------------------------------------------------------- C26
\* C26: chunks are scheduled in the order of their messages: of two
\* messages, the first with a chunk of 0.1 s and the second with a chunk of
\* 1 s, the buffer of 0.1 s is scheduled first and starts before the
\* buffer of 1 s, whichever decode completes first.
C26_ScheduledInArrivalOrder ==
    Len(scheduled) = 2
       => /\ Prev.dur = 1 /\ Last.dur = 10
          /\ Prev.start < Last.start

\* ---------------------------------------------------------------- C27
\* C27: as long as no connect was rejected and no transport was lost, at
\* most one session is open, under every interleaving of connect() and
\* play(), also when they are called while a connect is awaited.
C27_AtMostOneSessionOpen ==
    ~hist.lost
       => Cardinality({k \in DOMAIN sessions : sessions[k].state = "open"}) <= 1

\* ---------------------------------------------------------------- C28
\* C28: the start time handed to source.start is never before the hardware
\* time read in the same call, and each scheduling leaves nextStartTime at
\* that start time plus the buffer's duration, above the start time and
\* above the value it had before the call.
C28_StartNotInThePast ==
    /\ [](scheduled # <<>> => Last.start >= Last.at)
    /\ [][(\E d \in Chunks : ~DecodeFails(d) /\ decoded(d))
             => /\ Last'.at = currentTime
                /\ Last'.start >= currentTime
                /\ nextStartTime' = Last'.start + Last'.dur
                /\ nextStartTime' > Last'.start
                /\ nextStartTime' > nextStartTime]_vars

\* A 1 s chunk scheduled at 0.3 s after a stop(), the chunk before it
\* still playing: it starts at 0.8 s and nextStartTime is 1.8 s.
C28_Witness ==
    /\ Len(scheduled) = 2 /\ ~hist.lastCont /\ PrevEnd > Last.at
    /\ Last.at = 3 /\ Last.dur = 10 /\ Last.start = 8 /\ nextStartTime = 18

\* ---------------------------------------------------------------- C29
\* C29: while a round is being played (PLAYING with a mystery loaded), once
\* the play() calls of the music effect have settled and the helper holds
\* an open session, the remote session is playing.
C29_RoundKeepsPlaying ==
    (gameState = "PLAYING" /\ mystery /\ ~thenDue /\ Connected(session))
       => sessions[session].remote = "playing"

\* ---------------------------------------------------------------- C30
\* C30: every payload of a message is decoded and scheduled once, in
\* payload order: once the messages received so far, each carrying a
\* payload of 0.1 s and then one of 1 s, have been processed, the latest
\* two buffers scheduled are those of the latest message, back to back,
\* and nextStartTime is the first one's start plus both durations.
C30_EveryPayloadScheduled ==
    (hist.received >= 1 /\ decoding = EmptyBag)
       => /\ Len(scheduled) = 2
          /\ Prev.dur = 1 /\ Last.dur = 10
          /\ Last.start = PrevEnd
          /\ nextStartTime = Prev.start + Prev.dur + Last.dur

====
